---- MODULE Spec2Model ----
(***************************************************************************)
(* Model of src/jam.rs: the mirror filter and ranker process_mirrors with  *)
(* its helpers maybe_absent_compare, maybe_absent_list and ip_filter.      *)
(*                                                                         *)
(* Option<T> is a sequence of length at most one: None is <<>>, Some(v) is *)
(* <<v>>.  An f32 is a record [nan, q]: NaN, or the number q/4.  Multiples *)
(* of 1/4 are exact in f32 and so are their sums, so +, == and <= on them  *)
(* are the integer operations on q.  A panic (unwrap of None) is an        *)
(* outcome of its own and not a value.                                     *)
(***************************************************************************)
EXTENDS Integers, Sequences, FiniteSets, TLC

VARIABLES urls, args, pc, mirrors, run

vars == <<urls, args, pc, mirrors, run>>

(* Longest candidate list drawn from the one-field variants. *)
MaxLen == 2

-----------------------------------------------------------------------------
(* Option<T> *)

None == <<>>

Some(v) == <<v>>

is_none(o) == o = None

unwrap_or(o, d) == IF o = None THEN d ELSE o[1]

(* f32 *)

F32(q) == [nan |-> FALSE, q |-> q]

NaN == [nan |-> TRUE, q |-> 0]

(* 1.0 in quarters *)
ONE == 4

f32_eq(a, b) == ~a.nan /\ ~b.nan /\ a.q = b.q

f32_le(a, b) == ~a.nan /\ ~b.nan /\ a.q <= b.q

f32_add(a, b) == IF a.nan \/ b.nan THEN NaN ELSE F32(a.q + b.q)

(* f32::partial_cmp: None when either side is NaN *)
partial_cmp(a, b) ==
    IF a.nan \/ b.nan THEN None
    ELSE IF a.q < b.q THEN Some("Less")
    ELSE IF a.q = b.q THEN Some("Equal")
    ELSE Some("Greater")

(* Option<f32> == Option<f32> *)
option_f32_eq(a, b) ==
    IF a = None \/ b = None THEN a = b ELSE f32_eq(a[1], b[1])

(* Option<u32> <= Option<u32>: the derived order, None below every Some *)
option_u32_le(a, b) ==
    IF a = None THEN TRUE
    ELSE IF b = None THEN FALSE
    ELSE a[1] <= b[1]

DEFAULT_DELAY == 3600

-----------------------------------------------------------------------------
(* Helpers *)

maybe_absent_compare(argument, given) ==
    IF argument # None THEN argument[1] = given ELSE TRUE

maybe_absent_list(argument, given) ==
    IF Len(argument) = 0 THEN TRUE
    ELSE \E i \in 1..Len(argument) : argument[i] = given

(* Faulty variant: the second test reads the IPv4 support flag again. *)
ip_filter_v4_twice(a, given) ==
    IF a[1] /\ ~given[1] THEN FALSE
    ELSE IF a[2] /\ ~given[1] THEN FALSE
    ELSE TRUE

ip_filter(a, given) ==
    IF a[1] /\ ~given[1] THEN FALSE
    ELSE IF a[2] /\ ~given[2] THEN FALSE
    ELSE TRUE

-----------------------------------------------------------------------------
(* process_mirrors *)

(* Faulty variant: the doubled absence test names duration_avg, so duration_stddev is
   the field unwrapped without a test. *)
filter_closure_avg_tested(m, a) ==
    IF is_none(m.duration_avg) \/ is_none(m.duration_avg) \/ is_none(m.score)
    THEN "drop"
    ELSE IF ~maybe_absent_compare(a.country, m.country_code) THEN "drop"
    ELSE IF ~maybe_absent_list(a.protocol, m.protocol) THEN "drop"
    ELSE IF ~option_f32_eq(m.completion_pct, Some(F32(ONE))) THEN "drop"
    ELSE IF ~option_u32_le(m.delay, Some(unwrap_or(a.delay, DEFAULT_DELAY))) THEN "drop"
    ELSE IF is_none(m.duration_stddev) THEN "panic"
    ELSE IF f32_le(f32_add(m.duration_avg[1], m.duration_stddev[1]), F32(ONE))
         THEN "keep"
         ELSE "drop"

(* The first filter closure on one mirror: "keep", "drop" or "panic".  && is
   short-circuit, so duration_avg is unwrapped only when everything before
   it held. *)
filter_closure(m, a) ==
    IF is_none(m.duration_stddev) \/ is_none(m.duration_stddev) \/ is_none(m.score)
    THEN "drop"
    ELSE IF ~maybe_absent_compare(a.country, m.country_code) THEN "drop"
    ELSE IF ~maybe_absent_list(a.protocol, m.protocol) THEN "drop"
    ELSE IF ~option_f32_eq(m.completion_pct, Some(F32(ONE))) THEN "drop"
    ELSE IF ~option_u32_le(m.delay, Some(unwrap_or(a.delay, DEFAULT_DELAY))) THEN "drop"
    ELSE IF is_none(m.duration_avg) THEN "panic"
    ELSE IF f32_le(f32_add(m.duration_avg[1], m.duration_stddev[1]), F32(ONE))
         THEN "keep"
         ELSE "drop"

(* The second filter closure. *)
ip_closure(m, a) ==
    ip_filter(<<a.require_ipv4, a.require_ipv6>>, <<m.ipv4, m.ipv6>>)

(* into_iter().filter(..).filter(..).collect(): every mirror goes through the
   first closure, and through the second one when the first kept it. *)
RECURSIVE collect(_, _)
collect(s, a) ==
    IF s = <<>> THEN [panicked |-> FALSE, mirrors |-> <<>>]
    ELSE LET f == filter_closure(Head(s), a)
             rest == collect(Tail(s), a)
         IN  IF f = "panic" \/ rest.panicked
             THEN [panicked |-> TRUE, mirrors |-> <<>>]
             ELSE IF f = "keep" /\ ip_closure(Head(s), a)
                  THEN [panicked |-> FALSE, mirrors |-> <<Head(s)>> \o rest.mirrors]
                  ELSE rest

(* Faulty variant: the comparator's operands are swapped (descending order). *)
compare_swapped(x, y) ==
    IF is_none(x.score) \/ is_none(y.score) THEN "panic"
    ELSE LET c == partial_cmp(y.score[1], x.score[1])
         IN  IF is_none(c) THEN "panic" ELSE c[1]

(* The sort_by comparator: "Less", "Equal", "Greater", or "panic" when a
   score is None or the two scores do not compare. *)
compare(x, y) ==
    IF is_none(x.score) \/ is_none(y.score) THEN "panic"
    ELSE LET c == partial_cmp(x.score[1], y.score[1])
         IN  IF is_none(c) THEN "panic" ELSE c[1]

(* Faulty variant: x also moves left past the elements equal to it. *)
RECURSIVE insert_tail_past_equal(_, _)
insert_tail_past_equal(s, x) ==
    IF s = <<>> THEN [panicked |-> FALSE, mirrors |-> <<x>>]
    ELSE LET last == s[Len(s)]
             c == compare(x, last)
         IN  IF c = "panic" THEN [panicked |-> TRUE, mirrors |-> <<>>]
             ELSE IF c \in {"Less", "Equal"}
                  THEN LET r == insert_tail_past_equal(SubSeq(s, 1, Len(s) - 1), x)
                       IN  IF r.panicked THEN r
                           ELSE [panicked |-> FALSE, mirrors |-> Append(r.mirrors, last)]
                  ELSE [panicked |-> FALSE, mirrors |-> Append(s, x)]

(* One insertion of the stable sort: x moves left past the elements that
   compare greater than it. *)
RECURSIVE insert_tail(_, _)
insert_tail(s, x) ==
    IF s = <<>> THEN [panicked |-> FALSE, mirrors |-> <<x>>]
    ELSE LET last == s[Len(s)]
             c == compare(x, last)
         IN  IF c = "panic" THEN [panicked |-> TRUE, mirrors |-> <<>>]
             ELSE IF c = "Less"
                  THEN LET r == insert_tail(SubSeq(s, 1, Len(s) - 1), x)
                       IN  IF r.panicked THEN r
                           ELSE [panicked |-> FALSE, mirrors |-> Append(r.mirrors, last)]
                  ELSE [panicked |-> FALSE, mirrors |-> Append(s, x)]

(* Faulty variant: an unstable sort, the slice is consumed from its end so that equal
   elements come out in reverse order. *)
RECURSIVE sort_unstable_by(_)
sort_unstable_by(s) ==
    IF Len(s) < 2 THEN [panicked |-> FALSE, mirrors |-> s]
    ELSE LET r == sort_unstable_by(Tail(s))
         IN  IF r.panicked THEN r ELSE insert_tail(r.mirrors, Head(s))

(* slice::sort_by: stable; a slice shorter than two is not compared at all. *)
RECURSIVE sort_by(_)
sort_by(s) ==
    IF Len(s) < 2 THEN [panicked |-> FALSE, mirrors |-> s]
    ELSE LET r == sort_by(SubSeq(s, 1, Len(s) - 1))
         IN  IF r.panicked THEN r ELSE insert_tail(r.mirrors, s[Len(s)])

(* Faulty variant: the result is cut to maximum_mirrors entries. *)
process_mirrors_truncated(res, a) ==
    LET c == collect(res, a)
        r == IF c.panicked THEN c ELSE sort_by(c.mirrors)
    IN  IF r.panicked \/ a.maximum_mirrors = None
           \/ Len(r.mirrors) <= a.maximum_mirrors[1]
        THEN r
        ELSE [panicked |-> FALSE, mirrors |-> SubSeq(r.mirrors, 1, a.maximum_mirrors[1])]

process_mirrors(res, a) ==
    LET c == collect(res, a)
    IN  IF c.panicked THEN c ELSE sort_by(c.mirrors)

-----------------------------------------------------------------------------
(* Inputs *)

(* The valid mirror of tests::test_main, timings in quarters. *)
Valid ==
    [url |-> "https://test.com/", country_code |-> "US", protocol |-> "https",
     completion_pct |-> Some(F32(4)), delay |-> Some(600),
     ipv4 |-> TRUE, ipv6 |-> FALSE,
     duration_avg |-> Some(F32(2)), duration_stddev |-> Some(F32(2)),
     score |-> Some(F32(5))]

Urls ==
    [url : {"https://test.com/", "https://invalid.com/"},
     country_code : {"US", "CA"},
     protocol : {"https", "http"},
     completion_pct : {None, Some(F32(3)), Some(F32(4))},
     delay : {None, Some(600), Some(6000)},
     ipv4 : BOOLEAN, ipv6 : BOOLEAN,
     duration_avg : {None, Some(F32(2)), Some(F32(3))},
     duration_stddev : {None, Some(F32(2))},
     score : {None, Some(NaN), Some(F32(5)), Some(F32(8))}]

Fields == DOMAIN Valid

(* Mirrors that differ from the valid one in at most one field, as the
   invalid mirrors of tests::test_main do. *)
Variants == {m \in Urls : Cardinality({f \in Fields : m[f] # Valid[f]}) <= 1}

(* Every combination of the fields the filter reads. *)
Singles == {m \in Urls : m.url = Valid.url}

ArgsSet ==
    [country : {None, Some("US")},
     protocol : {<<>>, <<"rsync", "https">>},
     delay : {None, Some(6000)},
     require_ipv4 : BOOLEAN, require_ipv6 : BOOLEAN,
     maximum_mirrors : {None, Some(1)}]

Inputs ==
    UNION {[1..n -> Variants] : n \in 0..MaxLen} \cup {<<m>> : m \in Singles}

-----------------------------------------------------------------------------
(* Specification *)

Init ==
    /\ urls \in Inputs
    /\ args \in ArgsSet
    /\ pc = "ready"
    /\ mirrors = <<>>
    /\ run = "first"

(* One call of process_mirrors(res, &args). *)
Process ==
    /\ pc = "ready"
    /\ LET r == process_mirrors(urls, args)
       IN  /\ pc' = IF r.panicked THEN "panicked" ELSE "done"
           /\ mirrors' = r.mirrors
    /\ UNCHANGED <<urls, args, run>>

(* The result of a call becomes the input of a second call. *)
Reprocess ==
    /\ pc = "done"
    /\ run = "first"
    /\ urls' = mirrors
    /\ mirrors' = <<>>
    /\ pc' = "ready"
    /\ run' = "again"
    /\ UNCHANGED args

Next == Process \/ Reprocess

Spec == Init /\ [][Next]_vars

-----------------------------------------------------------------------------
(* Properties *)

Range(s) == {s[i] : i \in DOMAIN s}

Count(s, m) == Cardinality({i \in DOMAIN s : s[i] = m})

MaxDelay(a) == IF a.delay = None THEN 3600 ELSE a.delay[1]

(* The seven predicates as the specification words them, for a mirror whose
   delay and average duration are present. *)
Survives(m, a) ==
    /\ m.duration_stddev # None /\ m.score # None
    /\ a.country = None \/ a.country = <<m.country_code>>
    /\ a.protocol = <<>> \/ m.protocol \in Range(a.protocol)
    /\ m.completion_pct = <<[nan |-> FALSE, q |-> 4]>>
    /\ m.delay[1] <= MaxDelay(a)
    /\ m.duration_avg[1].q + m.duration_stddev[1].q <= 4
    /\ a.require_ipv4 => m.ipv4
    /\ a.require_ipv6 => m.ipv6

WellFormed(m) ==
    m.delay # None /\ m.duration_avg # None /\ m.score # <<NaN>>

(* C1: when every candidate has its delay and average duration present and a
   score that is not NaN, process_mirrors completes and its result holds, once
   per occurrence in the input, exactly the candidates that satisfy the seven
   predicates; maximum_mirrors does not shorten it. *)
C1_ExactSurvivors ==
    (pc # "ready" /\ \A i \in DOMAIN urls : WellFormed(urls[i]))
        => /\ pc = "done"
           /\ Len(mirrors) = Cardinality({i \in DOMAIN urls : Survives(urls[i], args)})
           /\ \A m \in Range(urls) \cup Range(mirrors) :
                  Count(mirrors, m) = IF Survives(m, args) THEN Count(urls, m) ELSE 0

C1_Witness ==
    /\ pc = "done" /\ run = "first"
    /\ \A i \in DOMAIN urls : WellFormed(urls[i])
    /\ args.maximum_mirrors = Some(1)
    /\ Len(urls) = 2 /\ Len(mirrors) = 2
    /\ urls[1] = urls[2]

(* C2: a candidate whose delay is absent is never in the result (stated for
   inputs whose average durations are present and whose scores are not NaN,
   which already refutes it). *)
C2_AbsentDelayExcluded ==
    (/\ pc = "done"
     /\ \A i \in DOMAIN urls :
            urls[i].duration_avg # None /\ urls[i].score # <<NaN>>)
        => \A k \in DOMAIN mirrors : mirrors[k].delay # None

AverageMissing(m) == m.duration_avg = None /\ m.duration_stddev # None

(* C3: a candidate whose average duration is absent while its deviation is
   present is excluded and does not make process_mirrors panic (stated for
   inputs whose scores are not NaN and whose delays are present, so that
   nothing else can make it panic). *)
C3_AbsentAverageExcluded ==
    (/\ pc # "ready"
     /\ \E i \in DOMAIN urls : AverageMissing(urls[i])
     /\ \A i \in DOMAIN urls :
            urls[i].score # <<NaN>> /\ urls[i].delay # None)
        => /\ pc = "done"
           /\ \A k \in DOMAIN mirrors : ~AverageMissing(mirrors[k])

(* C4: a candidate whose score is NaN is excluded by the filter: it is not in
   the result and the sort does not panic on it (stated for inputs whose
   average durations and delays are present, so that the filter cannot
   panic). *)
C4_NaNScoreExcluded ==
    (/\ pc # "ready"
     /\ \E i \in DOMAIN urls : urls[i].score = <<NaN>>
     /\ \A i \in DOMAIN urls :
            urls[i].duration_avg # None /\ urls[i].delay # None)
        => /\ pc = "done"
           /\ \A k \in DOMAIN mirrors : mirrors[k].score # <<NaN>>

Relaxations(a) ==
    {[a EXCEPT !.country = None], [a EXCEPT !.protocol = <<>>],
     [a EXCEPT !.require_ipv4 = FALSE], [a EXCEPT !.require_ipv6 = FALSE]}

(* C5: when process_mirrors completes, it also completes under the criteria
   with the country, the protocol or an IP-version constraint relaxed, and
   keeps every candidate it kept before (stated for inputs whose delays are
   present). *)
C5_RelaxationKeeps ==
    (pc = "done" /\ \A i \in DOMAIN urls : urls[i].delay # None)
        => \A a \in Relaxations(args) :
               LET r == process_mirrors(urls, a)
               IN  /\ ~r.panicked
                   /\ \A m \in Range(mirrors) : m \in Range(r.mirrors)

(* C6: process_mirrors run on its own result, under the same criteria,
   completes and returns that result unchanged. *)
C6_Idempotent ==
    (run = "again" /\ pc # "ready") => (pc = "done" /\ mirrors = urls)

C6_Witness ==
    /\ run = "again" /\ pc = "done"
    /\ Len(mirrors) = 2
    /\ mirrors[1] # mirrors[2]
    /\ mirrors[1].score = mirrors[2].score

(* C7: the result is in ascending order of score: each element's score is at
   most the score of the element after it. *)
C7_Ascending ==
    pc = "done"
        => \A k \in 1..(Len(mirrors) - 1) :
               /\ mirrors[k].score # None /\ mirrors[k + 1].score # None
               /\ ~mirrors[k].score[1].nan /\ ~mirrors[k + 1].score[1].nan
               /\ mirrors[k].score[1].q <= mirrors[k + 1].score[1].q

C7_Witness ==
    /\ pc = "done" /\ run = "first"
    /\ Len(urls) = 2 /\ Len(mirrors) = 2
    /\ urls[1].score = Some(F32(8)) /\ urls[2].score = Some(F32(5))
    /\ mirrors = <<urls[2], urls[1]>>

Incomplete(m) == m.duration_stddev = None \/ m.score = None

Complete(m) == ~Incomplete(m)

(* C8: a candidate whose deviation or score is absent is never in the result
   and has no effect on the call: the outcome, a panic included, is the
   outcome of the call on the input without these candidates. *)
C8_IncompleteIgnored ==
    pc # "ready"
        => LET r == process_mirrors(SelectSeq(urls, Complete), args)
           IN  /\ \A k \in DOMAIN mirrors : ~Incomplete(mirrors[k])
               /\ (pc = "panicked") = r.panicked
               /\ mirrors = r.mirrors

C8_Witness ==
    /\ pc = "done" /\ run = "first"
    /\ Len(urls) = 1 /\ mirrors = <<>>
    /\ urls[1].duration_stddev = None
    /\ urls[1].duration_avg = None
    /\ urls[1].delay = None
    /\ urls[1].score = Some(NaN)
    /\ urls[1].completion_pct = Some(F32(4))
    /\ args.country = None /\ args.protocol = <<>>
    /\ ~args.require_ipv4 /\ ~args.require_ipv6

(* C9: ip_filter is true exactly when each required IP version is supported,
   for all sixteen combinations of the flags, and no candidate of the result
   lacks a required IP version. *)
C9_IpGate ==
    /\ \A r4, r6, s4, s6 \in BOOLEAN :
           ip_filter(<<r4, r6>>, <<s4, s6>>) = ((r4 => s4) /\ (r6 => s6))
    /\ pc = "done"
           => \A k \in DOMAIN mirrors :
                  /\ args.require_ipv4 => mirrors[k].ipv4
                  /\ args.require_ipv6 => mirrors[k].ipv6

C9_Witness ==
    /\ pc = "done" /\ run = "first"
    /\ args.require_ipv4 /\ args.require_ipv6
    /\ Len(urls) = 2 /\ Len(mirrors) = 1
    /\ mirrors[1].ipv4 /\ mirrors[1].ipv6
    /\ \E i \in DOMAIN urls :
           filter_closure(urls[i], args) = "keep" /\ urls[i].ipv4 /\ ~urls[i].ipv6

(* C10: candidates of the result with equal scores are in the order they
   have in the input. *)
C10_Stable ==
    pc = "done"
        => \A m \in Range(mirrors) :
               LET Tied(x) == x.score = m.score
                   KeptTied(x) == x \in Range(mirrors) /\ x.score = m.score
               IN  SelectSeq(mirrors, Tied) = SelectSeq(urls, KeptTied)

C10_Witness ==
    /\ pc = "done" /\ run = "first"
    /\ Len(urls) = 2 /\ mirrors = urls
    /\ mirrors[1] # mirrors[2]
    /\ mirrors[1].score = mirrors[2].score

====
